---- MODULE Spec2Model ----
(***************************************************************************)
(* Garage door opener accessory (main/App.c): the accessory state record,  *)
(* its key-value store record, the GPIO output, the one-shot hardware      *)
(* timer, the switch_off_handler worker task woken from the timer ISR, the *)
(* HAP write handler running on the run loop, and the run-loop callback    *)
(* queue.  The write handler and the worker are FreeRTOS tasks on          *)
(* independently schedulable units, so both are modelled one statement per *)
(* step (the pc value names the source line about to run).                 *)
(***************************************************************************)
EXTENDS Integers, Sequences, FiniteSets, TLC

VARIABLES
    state,        \* accessoryConfiguration.state (App.c:59-63)
    store,        \* key-value store slot (domain 0x00, key 0x00)
    gpio,         \* level of kLedGPIOPin
    timer,        \* TIMER_GROUP_0 / TIMER_0
    notifyValue,  \* task notification value of switch_off_handler
    hpc,          \* write handler: source line about to run, or "idle"
    hReq,         \* write handler: the `value` argument of the last call
    hSaw,         \* write handler: targetDoorState as read at line 367
    hLog,         \* write handler: effects of the last call, in order
    wpc,          \* worker task: source line about to run
    wSaw,         \* worker: targetDoorState as read at line 226
    wLog,         \* worker: effects since its last wake, in order
    queue,        \* run-loop callback queue (copied contexts)
    raisedBy,     \* contexts that have called HAPAccessoryServerRaiseEvent
    lastRaise,    \* the last HAPAccessoryServerRaiseEvent call
    halted,       \* HAPFatalError was reached
    loadResult,   \* what LoadAccessoryState found at the last boot
    writes,       \* write requests handled since the last boot (saturating)
    arm,          \* progress of the countdown armed by the last write
    reverts,      \* auto-reverts completed since that arm (saturating)
    pending,      \* messages the worker has posted and the run loop has not run
    fresh,        \* which of timer / wake signal / worker wake-up stem from the
                  \* countdown armed by the most recent state-changing Open
    wDuring,      \* the worker handled a wake-up since the last write call began
    bootErrors,   \* HAPLogError calls made by LoadAccessoryState at the last boot
    storeErr      \* a key-value store call has returned an error since boot

vars == <<state, store, gpio, timer, notifyValue, hpc, hReq, hSaw, hLog,
          wpc, wSaw, wLog, queue, raisedBy, lastRaise, halted, loadResult,
          writes, arm, reverts, pending, fresh, wDuring, bootErrors, storeErr>>

----------------------------------------------------------------------------
(* Bounds of the model *)

MaxQueue == 2          \* run-loop queue capacity explored
MaxNotifyValue == 2    \* the notification value saturates here
MaxWrites == 2         \* `writes` saturates here
MaxReverts == 2        \* `reverts` saturates here
MaxDurationMs == 6000  \* longest duration passed to set_timer, in ms
DurationStepMs == 100  \* durations explored are the multiples of this

(* Program constants *)

kHAPCharacteristicValue_TargetDoorState_Open == 0
kHAPCharacteristicValue_TargetDoorState_Closed == 1
kHAPCharacteristicValue_CurrentDoorState_Open == 0
kHAPCharacteristicValue_CurrentDoorState_Closed == 1
kHAPCharacteristicValue_CurrentDoorState_Opening == 2
kHAPCharacteristicValue_CurrentDoorState_Closing == 3
SizeofState == 3            \* two uint8_t and a bool
TIMER_BASE_CLK == 80000000  \* APB clock
TIMER_DIVIDER == 16
AutoRevertMs == 5000

TIMER_SCALE == TIMER_BASE_CLK \div TIMER_DIVIDER

Open == kHAPCharacteristicValue_TargetDoorState_Open
Closed == kHAPCharacteristicValue_TargetDoorState_Closed
ValidTargets == {Open, Closed}
NoRead == Closed + 1   \* a value no read of a valid target returns

Min(a, b) == IF a < b THEN a ELSE b

----------------------------------------------------------------------------
(* The state record and the store *)

StateRec(cur, tgt, obs) ==
    [currentDoorState |-> cur, targetDoorState |-> tgt, obstructionDetected |-> obs]

\* HAPRawBufferZero(&accessoryConfiguration.state, ...)
ZeroState == StateRec(0, 0, FALSE)

StoreRec(found, n, s) == [found |-> found, numBytes |-> n, bytes |-> s]

NotFound == StoreRec(FALSE, 0, ZeroState)

\* A record of another size (left by another firmware build).
Mismatched == StoreRec(TRUE, SizeofState - 1, StateRec(Closed, Closed, FALSE))

\* The store contents a device can boot with.
InitStores ==
    {NotFound, Mismatched, StoreRec(TRUE, SizeofState, StateRec(Closed, Closed, FALSE))}

\* LoadAccessoryState with a successful Get: the resulting state record.
LoadAccessoryState_KeepLoaded(s) ==
    IF ~s.found \/ s.numBytes /= SizeofState
    THEN ZeroState
    ELSE s.bytes

LoadAccessoryState(s) ==
    IF ~s.found \/ s.numBytes /= SizeofState
    THEN ZeroState
    ELSE StateRec(kHAPCharacteristicValue_CurrentDoorState_Closed,
                  kHAPCharacteristicValue_TargetDoorState_Closed,
                  s.bytes.obstructionDetected)

LoadOutcome(s) ==
    IF ~s.found THEN "notfound"
    ELSE IF s.numBytes /= SizeofState THEN "mismatch"
    ELSE "loaded"

\* LoadAccessoryState: how many times it calls HAPLogError (lines 97-100).
LoadErrorLogs_Always(s) ==
    IF ~s.found \/ s.numBytes /= SizeofState THEN 1 ELSE 0

LoadErrorLogs(s) ==
    IF (~s.found \/ s.numBytes /= SizeofState) /\ s.found THEN 1 ELSE 0

\* HAPFatalError: the process stops here.
HAPFatalError_Returns == halted' = FALSE

HAPFatalError == halted' = TRUE

\* SaveAccessoryState with a successful Set: the record written.
SaveAccessoryState(st) == StoreRec(TRUE, SizeofState, st)

\* The read handlers.
HandleGarageDoorOpenerCurrentDoorStateRead == state.currentDoorState
HandleGarageDoorOpenerTargetDoorStateRead == state.targetDoorState

----------------------------------------------------------------------------
(* The hardware timer *)

TimerOff == [counter_en |-> FALSE, alarm_en |-> FALSE, counter |-> 0, alarm_value |-> 0,
             duration_ms |-> 0]

\* timer_set_alarm_value(..., timer_duration_in_ms / 1000 * TIMER_SCALE)
AlarmValue(ms) == (ms \div 1000) * TIMER_SCALE

set_timer(ms) ==
    [counter_en |-> TRUE, alarm_en |-> TRUE, counter |-> 0, alarm_value |-> AlarmValue(ms),
     duration_ms |-> ms]

timer_pause(t) == [t EXCEPT !.counter_en = FALSE]

----------------------------------------------------------------------------
(* Notifications *)

Msg(ch) == [accessory |-> "accessory", service |-> "garageDoorOpenerService",
            characteristic |-> ch]

\* HAPAccessoryServerRaiseEvent called from context ctx.
RaiseEvent(ctx, ch, via) ==
    /\ raisedBy' = raisedBy \cup {ctx}
    /\ lastRaise' = [ctx |-> ctx, msg |-> Msg(ch), via |-> via]

\* Posting at the front of the queue instead of the back.
ScheduleAccessoryNotificationInRunLoop_Front(ch) ==
    /\ Len(queue) < MaxQueue
    /\ queue' = <<Msg(ch)>> \o queue
    /\ UNCHANGED <<raisedBy, lastRaise>>

ScheduleAccessoryNotificationInRunLoop(ch) ==
    /\ Len(queue) < MaxQueue
    /\ queue' = Append(queue, Msg(ch))
    /\ UNCHANGED <<raisedBy, lastRaise>>

----------------------------------------------------------------------------
(* Boot: AppInitialize, then AppCreate *)

NoRaise == [ctx |-> "none", msg |-> Msg("none"), via |-> "none"]
NoFresh == [timer |-> FALSE, wake |-> FALSE, worker |-> FALSE]

Init ==
    /\ store \in InitStores
    /\ gpio = FALSE                       \* gpio_set_level(kLedGPIOPin, 0)
    /\ timer = TimerOff
    /\ notifyValue = 0
    /\ hpc = "idle" /\ hReq = Closed /\ hSaw = NoRead /\ hLog = <<>>
    /\ wpc = "w220" /\ wSaw = NoRead /\ wLog = <<>>   \* xTaskCreate
    /\ queue = <<>>
    /\ raisedBy = {}
    /\ lastRaise = NoRaise
    /\ halted = FALSE
    /\ state = LoadAccessoryState(store)  \* AppCreate
    /\ loadResult = LoadOutcome(store)
    /\ writes = 0
    /\ arm = "none"
    /\ reverts = 0
    /\ pending = <<>>
    /\ fresh = NoFresh
    /\ wDuring = FALSE
    /\ bootErrors = LoadErrorLogs(store)
    /\ storeErr = FALSE

\* A power cycle or reset: the store survives, everything else starts over.
\* getFails: HAPPlatformKeyValueStoreGet returns an error (HAPFatalError).
Restart(getFails) ==
    /\ gpio' = FALSE
    /\ timer' = TimerOff
    /\ notifyValue' = 0
    /\ hpc' = "idle" /\ hReq' = Closed /\ hSaw' = NoRead /\ hLog' = <<>>
    /\ wpc' = "w220" /\ wSaw' = NoRead /\ wLog' = <<>>
    /\ queue' = <<>>
    /\ raisedBy' = {}
    /\ lastRaise' = NoRaise
    /\ halted' = getFails
    /\ state' = IF getFails THEN ZeroState ELSE LoadAccessoryState(store)
    /\ loadResult' = IF getFails THEN "error" ELSE LoadOutcome(store)
    /\ writes' = 0
    /\ arm' = "none"
    /\ reverts' = 0
    /\ pending' = <<>>
    /\ fresh' = NoFresh
    /\ wDuring' = FALSE
    /\ bootErrors' = IF getFails THEN 0 ELSE LoadErrorLogs(store)
    /\ storeErr' = getFails
    /\ UNCHANGED store

----------------------------------------------------------------------------
(* HandleGarageDoorOpenerTargetDoorStateWrite, on the run loop *)

hvars == <<hpc, hReq, hSaw, hLog>>
wvars == <<wpc, wSaw, wLog>>
notif == <<queue, raisedBy, lastRaise>>
hist  == <<loadResult, writes, arm, reverts>>

\* line 367: accessoryConfiguration.state.targetDoorState != targetState
TargetDiffers_Always(t) == TRUE

TargetDiffers(t) == state.targetDoorState /= t

\* Statement order of the handler body (lines 368-383) for request t.
HNext_DriverFirst(pc, t) ==
    CASE pc = "h368" -> "h369"
      [] pc = "h369" -> IF t = Open THEN "h377" ELSE "h381"
      [] pc = "h377" -> "h370"
      [] pc = "h381" -> "h370"
      [] pc = "h370" -> "h371"
      [] pc = "h371" -> "h372"
      [] pc = "h372" -> IF t = Open THEN "h378" ELSE "idle"
      [] pc = "h378" -> "idle"

HNext(pc, t) ==
    CASE pc = "h368" -> "h369"
      [] pc = "h369" -> "h370"
      [] pc = "h370" -> "h371"
      [] pc = "h371" -> "h372"
      [] pc = "h372" -> IF t = kHAPCharacteristicValue_TargetDoorState_Open
                        THEN "h377" ELSE "h381"
      [] pc = "h377" -> "h378"
      [] pc = "h378" -> "idle"
      [] pc = "h381" -> "idle"

HandleWrite_367(t) ==
    /\ ~halted /\ hpc = "idle"
    /\ hReq' = t
    /\ hSaw' = state.targetDoorState
    /\ hLog' = <<>>
    /\ hpc' = IF TargetDiffers(t) THEN "h368" ELSE "idle"
    /\ writes' = Min(writes + 1, MaxWrites)
    /\ arm' = "none"
    /\ UNCHANGED <<state, store, gpio, timer, notifyValue, wvars, notif, halted,
                   loadResult, reverts>>
    /\ wDuring' = (wpc \notin {"w220", "w223"})
    /\ UNCHANGED <<pending, fresh, bootErrors, storeErr>>

HandleWrite_368 ==
    /\ ~halted /\ hpc = "h368"
    /\ state' = [state EXCEPT !.targetDoorState = hReq]
    /\ hLog' = Append(hLog, "wrT")
    /\ hpc' = HNext(hpc, hReq)
    /\ UNCHANGED <<store, gpio, timer, notifyValue, hReq, hSaw, wvars, notif, halted, hist>>
    /\ fresh' = IF hReq = Open THEN NoFresh ELSE fresh
    /\ UNCHANGED <<pending, wDuring, bootErrors, storeErr>>

\* line 369: the current state that goes with target t (the same number).
SettledState_Transitional(t) ==
    IF t = Open THEN kHAPCharacteristicValue_CurrentDoorState_Opening
    ELSE kHAPCharacteristicValue_CurrentDoorState_Closing

SettledState(t) == t

HandleWrite_369 ==
    /\ ~halted /\ hpc = "h369"
    /\ state' = [state EXCEPT !.currentDoorState = SettledState(hReq)]
    /\ hLog' = Append(hLog, "wrC")
    /\ hpc' = HNext(hpc, hReq)
    /\ UNCHANGED <<store, gpio, timer, notifyValue, hReq, hSaw, wvars, notif, halted, hist>>
    /\ UNCHANGED <<pending, fresh, wDuring, bootErrors, storeErr>>

HandleWrite_370 ==
    /\ ~halted /\ hpc = "h370"
    /\ store' = SaveAccessoryState(state)
    /\ hLog' = Append(hLog, "persist")
    /\ hpc' = HNext(hpc, hReq)
    /\ UNCHANGED <<state, gpio, timer, notifyValue, hReq, hSaw, wvars, notif, halted, hist>>
    /\ UNCHANGED <<pending, fresh, wDuring, bootErrors, storeErr>>

\* HAPPlatformKeyValueStoreSet returns an error: HAPFatalError.
HandleWrite_370_Fatal ==
    /\ ~halted /\ hpc = "h370"
    /\ HAPFatalError
    /\ UNCHANGED <<state, store, gpio, timer, notifyValue, hvars, wvars, notif, hist>>
    /\ storeErr' = TRUE
    /\ UNCHANGED <<pending, fresh, wDuring, bootErrors>>

HandleWrite_371 ==
    /\ ~halted /\ hpc = "h371"
    /\ RaiseEvent("runloop", "TargetDoorState", "direct")
    /\ hLog' = Append(hLog, "raiseT")
    /\ hpc' = HNext(hpc, hReq)
    /\ UNCHANGED <<state, store, gpio, timer, notifyValue, hReq, hSaw, wvars, queue,
                   halted, hist>>
    /\ UNCHANGED <<pending, fresh, wDuring, bootErrors, storeErr>>

HandleWrite_372 ==
    /\ ~halted /\ hpc = "h372"
    /\ RaiseEvent("runloop", "CurrentDoorState", "direct")
    /\ hLog' = Append(hLog, "raiseC")
    /\ hpc' = HNext(hpc, hReq)
    /\ UNCHANGED <<state, store, gpio, timer, notifyValue, hReq, hSaw, wvars, queue,
                   halted, hist>>
    /\ UNCHANGED <<pending, fresh, wDuring, bootErrors, storeErr>>

HandleWrite_377 ==
    /\ ~halted /\ hpc = "h377"
    /\ gpio' = TRUE
    /\ hLog' = Append(hLog, "gpioHigh")
    /\ hpc' = HNext(hpc, hReq)
    /\ UNCHANGED <<state, store, timer, notifyValue, hReq, hSaw, wvars, notif, halted, hist>>
    /\ UNCHANGED <<pending, fresh, wDuring, bootErrors, storeErr>>

HandleWrite_378 ==
    /\ ~halted /\ hpc = "h378"
    /\ timer' = set_timer(AutoRevertMs)
    /\ hLog' = Append(hLog, "arm")
    /\ hpc' = HNext(hpc, hReq)
    /\ arm' = "armed"
    /\ reverts' = 0
    /\ UNCHANGED <<state, store, gpio, notifyValue, hReq, hSaw, wvars, notif, halted,
                   loadResult, writes>>
    /\ fresh' = [fresh EXCEPT !.timer = TRUE]
    /\ UNCHANGED <<pending, wDuring, bootErrors, storeErr>>

HandleWrite_381 ==
    /\ ~halted /\ hpc = "h381"
    /\ gpio' = FALSE
    /\ hLog' = Append(hLog, "gpioLow")
    /\ hpc' = HNext(hpc, hReq)
    /\ UNCHANGED <<state, store, timer, notifyValue, hReq, hSaw, wvars, notif, halted, hist>>
    /\ UNCHANGED <<pending, fresh, wDuring, bootErrors, storeErr>>

----------------------------------------------------------------------------
(* The timer hardware and its ISR *)

\* One second of counting.
TimerTick ==
    /\ ~halted
    /\ timer.counter_en /\ timer.counter < timer.alarm_value
    /\ timer' = [timer EXCEPT !.counter = Min(timer.counter + TIMER_SCALE, timer.alarm_value)]
    /\ UNCHANGED <<state, store, gpio, notifyValue, hvars, wvars, notif, halted, hist>>
    /\ UNCHANGED <<pending, fresh, wDuring, bootErrors, storeErr>>

\* The alarm interrupt: vTaskNotifyGiveFromISR.  auto_reload is false, so
\* the alarm is disabled once it has fired.
switch_off_timer_callback_Reverts ==
    /\ ~halted
    /\ timer.counter_en /\ timer.alarm_en /\ timer.counter >= timer.alarm_value
    /\ timer' = [timer EXCEPT !.alarm_en = FALSE]
    /\ notifyValue' = Min(notifyValue + 1, MaxNotifyValue)
    /\ arm' = IF arm = "armed" THEN "fired" ELSE arm
    /\ gpio' = FALSE
    /\ UNCHANGED <<state, store, hvars, wvars, notif, halted, loadResult, writes,
                   reverts>>
    /\ fresh' = [fresh EXCEPT !.wake = fresh.wake \/ fresh.timer, !.timer = FALSE]
    /\ UNCHANGED <<pending, wDuring, bootErrors, storeErr>>

switch_off_timer_callback ==
    /\ ~halted
    /\ timer.counter_en /\ timer.alarm_en /\ timer.counter >= timer.alarm_value
    /\ timer' = [timer EXCEPT !.alarm_en = FALSE]
    /\ notifyValue' = Min(notifyValue + 1, MaxNotifyValue)
    /\ arm' = IF arm = "armed" THEN "fired" ELSE arm
    /\ UNCHANGED <<state, store, gpio, hvars, wvars, notif, halted, loadResult, writes,
                   reverts>>
    /\ fresh' = [fresh EXCEPT !.wake = fresh.wake \/ fresh.timer, !.timer = FALSE]
    /\ UNCHANGED <<pending, wDuring, bootErrors, storeErr>>

----------------------------------------------------------------------------
(* switch_off_handler, the worker task *)

\* Statement order of the loop body (lines 223-234).
WNext(pc) ==
    CASE pc = "w220" -> "w223"
      [] pc = "w223" -> "w225"
      [] pc = "w225" -> "w226"
      [] pc = "w228" -> "w229"
      [] pc = "w229" -> "w230"
      [] pc = "w230" -> "w231"
      [] pc = "w231" -> "w232"
      [] pc = "w232" -> "w233"
      [] pc = "w233" -> "w223"

\* line 220: the ulTaskNotifyTake before the loop
Worker_220 ==
    /\ ~halted /\ wpc = "w220"
    /\ notifyValue > 0
    /\ notifyValue' = 0
    /\ wpc' = WNext(wpc)
    /\ arm' = IF arm = "fired" THEN "taken" ELSE arm
    /\ UNCHANGED <<state, store, gpio, timer, hvars, wSaw, wLog, notif, halted,
                   loadResult, writes, reverts>>
    /\ fresh' = [fresh EXCEPT !.wake = FALSE]
    /\ UNCHANGED <<pending, wDuring, bootErrors, storeErr>>

\* line 223: the ulTaskNotifyTake of the loop
Worker_223 ==
    /\ ~halted /\ wpc = "w223"
    /\ notifyValue > 0
    /\ notifyValue' = 0
    /\ wpc' = WNext(wpc)
    /\ wSaw' = NoRead
    /\ wLog' = <<>>
    /\ arm' = IF arm = "fired" THEN "taken" ELSE arm
    /\ UNCHANGED <<state, store, gpio, timer, hvars, notif, halted, loadResult, writes,
                   reverts>>
    /\ fresh' = [fresh EXCEPT !.wake = FALSE, !.worker = fresh.wake]
    /\ wDuring' = TRUE
    /\ UNCHANGED <<pending, bootErrors, storeErr>>

Worker_225 ==
    /\ ~halted /\ wpc = "w225"
    /\ timer' = timer_pause(timer)
    /\ wLog' = Append(wLog, "pause")
    /\ wpc' = WNext(wpc)
    /\ UNCHANGED <<state, store, gpio, notifyValue, hvars, wSaw, notif, halted, hist>>
    /\ fresh' = [fresh EXCEPT !.timer = FALSE]
    /\ UNCHANGED <<pending, wDuring, bootErrors, storeErr>>

\* line 226: targetDoorState == kHAPCharacteristicValue_TargetDoorState_Open
RevertGuard_Always(tgt) == TRUE

RevertGuard(tgt) == tgt = kHAPCharacteristicValue_TargetDoorState_Open

Worker_226 ==
    /\ ~halted /\ wpc = "w226"
    /\ wSaw' = state.targetDoorState
    /\ wpc' = IF RevertGuard(state.targetDoorState) THEN "w228" ELSE "w223"
    /\ UNCHANGED <<state, store, gpio, timer, notifyValue, hvars, wLog, notif, halted, hist>>
    /\ fresh' = [fresh EXCEPT !.worker = fresh.worker /\ RevertGuard(state.targetDoorState)]
    /\ UNCHANGED <<pending, wDuring, bootErrors, storeErr>>

Worker_228 ==
    /\ ~halted /\ wpc = "w228"
    /\ state' = [state EXCEPT !.targetDoorState = kHAPCharacteristicValue_TargetDoorState_Closed]
    /\ wLog' = Append(wLog, "wrT")
    /\ wpc' = WNext(wpc)
    /\ UNCHANGED <<store, gpio, timer, notifyValue, hvars, wSaw, notif, halted, hist>>
    /\ fresh' = [fresh EXCEPT !.worker = FALSE]
    /\ UNCHANGED <<pending, wDuring, bootErrors, storeErr>>

Worker_229 ==
    /\ ~halted /\ wpc = "w229"
    /\ state' = [state EXCEPT !.currentDoorState = kHAPCharacteristicValue_CurrentDoorState_Closed]
    /\ wLog' = Append(wLog, "wrC")
    /\ wpc' = WNext(wpc)
    /\ UNCHANGED <<store, gpio, timer, notifyValue, hvars, wSaw, notif, halted, hist>>
    /\ UNCHANGED <<pending, fresh, wDuring, bootErrors, storeErr>>

Worker_230 ==
    /\ ~halted /\ wpc = "w230"
    /\ store' = SaveAccessoryState(state)
    /\ wLog' = Append(wLog, "persist")
    /\ wpc' = WNext(wpc)
    /\ UNCHANGED <<state, gpio, timer, notifyValue, hvars, wSaw, notif, halted, hist>>
    /\ UNCHANGED <<pending, fresh, wDuring, bootErrors, storeErr>>

Worker_230_Fatal ==
    /\ ~halted /\ wpc = "w230"
    /\ HAPFatalError
    /\ UNCHANGED <<state, store, gpio, timer, notifyValue, hvars, wvars, notif, hist>>
    /\ storeErr' = TRUE
    /\ UNCHANGED <<pending, fresh, wDuring, bootErrors>>

Worker_231 ==
    /\ ~halted /\ wpc = "w231"
    /\ gpio' = FALSE
    /\ wLog' = Append(wLog, "gpioLow")
    /\ wpc' = WNext(wpc)
    /\ UNCHANGED <<state, store, timer, notifyValue, hvars, wSaw, notif, halted, hist>>
    /\ UNCHANGED <<pending, fresh, wDuring, bootErrors, storeErr>>

\* Raising the event in the worker's own context, as AccessoryNotification does.
WorkerNotify_Direct(ch) ==
    /\ RaiseEvent("worker", ch, "direct")
    /\ UNCHANGED queue

\* How the worker announces a changed characteristic (lines 232-233).
WorkerNotify(ch) == ScheduleAccessoryNotificationInRunLoop(ch)

Worker_232 ==
    /\ ~halted /\ wpc = "w232"
    /\ WorkerNotify("TargetDoorState")
    /\ wLog' = Append(wLog, "schedT")
    /\ wpc' = WNext(wpc)
    /\ UNCHANGED <<state, store, gpio, timer, notifyValue, hvars, wSaw, halted, hist>>
    /\ pending' = Append(pending, Msg("TargetDoorState"))
    /\ UNCHANGED <<fresh, wDuring, bootErrors, storeErr>>

Worker_233 ==
    /\ ~halted /\ wpc = "w233"
    /\ WorkerNotify("CurrentDoorState")
    /\ wLog' = Append(wLog, "schedC")
    /\ wpc' = WNext(wpc)
    /\ reverts' = Min(reverts + 1, MaxReverts)
    /\ UNCHANGED <<state, store, gpio, timer, notifyValue, hvars, wSaw, halted,
                   loadResult, writes, arm>>
    /\ pending' = Append(pending, Msg("CurrentDoorState"))
    /\ UNCHANGED <<fresh, wDuring, bootErrors, storeErr>>

----------------------------------------------------------------------------
(* The run loop executes a scheduled callback between protocol callbacks *)

AccessoryNotificationRunLoopCallback ==
    /\ ~halted /\ hpc = "idle"
    /\ queue /= <<>>
    /\ raisedBy' = raisedBy \cup {"runloop"}
    /\ lastRaise' = [ctx |-> "runloop", msg |-> Head(queue), via |-> "queue"]
    /\ queue' = Tail(queue)
    /\ UNCHANGED <<state, store, gpio, timer, notifyValue, hvars, wvars, halted, hist>>
    /\ pending' = IF pending = <<>> THEN pending ELSE Tail(pending)
    /\ UNCHANGED <<fresh, wDuring, bootErrors, storeErr>>

----------------------------------------------------------------------------

Next ==
    \/ \E f \in BOOLEAN : Restart(f)
    \/ \E t \in ValidTargets : HandleWrite_367(t)
    \/ HandleWrite_368
    \/ HandleWrite_369
    \/ HandleWrite_370
    \/ HandleWrite_370_Fatal
    \/ HandleWrite_371
    \/ HandleWrite_372
    \/ HandleWrite_377
    \/ HandleWrite_378
    \/ HandleWrite_381
    \/ TimerTick
    \/ switch_off_timer_callback
    \/ Worker_220
    \/ Worker_223
    \/ Worker_225
    \/ Worker_226
    \/ Worker_228
    \/ Worker_229
    \/ Worker_230
    \/ Worker_230_Fatal
    \/ Worker_231
    \/ Worker_232
    \/ Worker_233
    \/ AccessoryNotificationRunLoopCallback

Spec == Init /\ [][Next]_vars

----------------------------------------------------------------------------
(* set_timer on its own: every duration a caller can pass *)

\* The durations explored: 0, DurationStepMs, ... up to MaxDurationMs.
Durations == {d \in 0..MaxDurationMs : d % DurationStepMs = 0}

\* A call of set_timer(timer_duration_in_ms, false) with any duration.
SetTimerCall(ms) ==
    /\ timer' = set_timer(ms)
    /\ UNCHANGED <<state, store, gpio, notifyValue, hvars, wvars, notif, halted, hist>>
    /\ UNCHANGED <<pending, fresh, wDuring, bootErrors, storeErr>>

NextTimer ==
    \/ \E ms \in Durations : SetTimerCall(ms)
    \/ TimerTick

SpecTimer == Init /\ [][NextTimer]_vars

----------------------------------------------------------------------------
(* Properties *)

Count(log, e) == Cardinality({i \in DOMAIN log : log[i] = e})
Has(log, e) == \E i \in DOMAIN log : log[i] = e
IsPrefix(a, b) == Len(a) <= Len(b) /\ \A i \in DOMAIN a : a[i] = b[i]
\* Every occurrence of an effect of set A comes before every one of set B.
AllBefore(log, A, B) ==
    \A i, j \in DOMAIN log : (log[i] \in A /\ log[j] \in B) => i < j

Driver == {"gpioHigh", "gpioLow"}
Persist == {"persist"}
Notify == {"raiseT", "raiseC", "schedT", "schedC"}
TimerArm == {"arm"}

\* The effects of a complete state-changing write of t, in source order.
HandlerEffects(t) ==
    IF t = Open
    THEN <<"wrT", "wrC", "persist", "raiseT", "raiseC", "gpioHigh", "arm">>
    ELSE <<"wrT", "wrC", "persist", "raiseT", "raiseC", "gpioLow">>

\* The effects of a complete auto-revert, in source order.
RevertEffects == <<"pause", "wrT", "wrC", "persist", "gpioLow", "schedT", "schedC">>

\* The worker has consumed the wake signal of the countdown armed by the
\* last write and is parked in ulTaskNotifyTake again.
ExpiryHandled == arm = "taken" /\ wpc = "w223"

\* C1: once the expiry of a countdown armed by a state-changing Open write
\* has been handled by the worker, with no write in between, exactly one
\* auto-revert has happened: target and current are Closed and the GPIO
\* output is low.  This holds for every such write since boot, the first
\* included.
C1_AutoRevertAfterExpiry ==
    ExpiryHandled =>
        /\ reverts = 1
        /\ state.targetDoorState = Closed
        /\ state.currentDoorState = Closed
        /\ gpio = FALSE

\* C2: after a boot that found no record, and before any write, the read
\* handlers return Closed / Closed.
C2_DefaultIsClosed ==
    (loadResult = "notfound" /\ writes = 0) =>
        /\ HandleGarageDoorOpenerCurrentDoorStateRead = Closed
        /\ HandleGarageDoorOpenerTargetDoorStateRead = Closed

\* The first write since boot asked for Open and has returned, and neither
\* the timer nor the worker has moved since.
FirstOpenReturned ==
    /\ loadResult = "notfound" /\ writes = 1 /\ hReq = Open /\ hpc = "idle"
    /\ ~halted /\ timer.counter = 0 /\ notifyValue = 0 /\ wpc = "w220"

\* C3: after a boot that found no record, the first write of Open yields
\* current = Open, target = Open, GPIO high, exactly one persistence write,
\* exactly two notifications (target and current) and the timer armed for
\* 5000 ms.
C3_FirstOpenActuates ==
    FirstOpenReturned =>
        /\ state.currentDoorState = Open /\ state.targetDoorState = Open
        /\ gpio = TRUE
        /\ Count(hLog, "persist") = 1
        /\ Count(hLog, "raiseT") = 1 /\ Count(hLog, "raiseC") = 1
        /\ timer = set_timer(5000)
        /\ timer.alarm_value = 5 * TIMER_SCALE

\* The state right after a boot whose LoadAccessoryState found a record of
\* the right size (nothing can have written the record or the store since).
LoadedAtBoot == loadResult = "loaded" /\ writes = 0

SameTargetCall ==
    /\ hpc = "idle" /\ ~halted
    /\ hSaw' = state.targetDoorState /\ hReq' = hSaw' /\ writes' > 0
    /\ <<hpc, hReq, hSaw, hLog, writes, arm>>' /= <<hpc, hReq, hSaw, hLog, writes, arm>>

\* C5: a write of the target the record already holds returns at once: it
\* performs no effect at all (no write to the record, no persistence write,
\* no GPIO call, no timer call, no notification), so the state record, the
\* persisted record, the GPIO level, the timer and the notifications are
\* the same after the call as before it.
C5_SameTargetIsNoop ==
    /\ [](hSaw = hReq => (hpc = "idle" /\ hLog = <<>>))
    /\ [][SameTargetCall =>
            (hpc' = "idle" /\ UNCHANGED <<state, store, gpio, timer, notifyValue,
                                          queue, raisedBy, lastRaise>>)]_vars

C5_Witness ==
    /\ hSaw = hReq /\ hpc = "idle" /\ writes = MaxWrites
    /\ store.found /\ store.bytes.targetDoorState = hReq /\ raisedBy /= {}

HandlerNotifies == hpc \in {"h371", "h372"}
WorkerNotifies == wpc \in {"w232", "w233"}

\* C7: on both paths a notification is raised or scheduled only after the
\* persistence write of the same operation, and at that moment the persisted
\* record equals the state being announced (what the read handlers return).
C7_PersistedWhenNotified ==
    /\ HandlerNotifies => Has(hLog, "persist")
    /\ WorkerNotifies => Has(wLog, "persist")
    /\ (HandlerNotifies \/ WorkerNotifies) => store = SaveAccessoryState(state)

\* C8: after a state-changing write of Closed has returned, the timer is no
\* longer counting towards an alarm.
C8_ClosedStopsTimer ==
    (hpc = "idle" /\ hReq = Closed /\ hLog /= <<>>) =>
        ~(timer.counter_en /\ timer.alarm_en)

\* C9: a wake-up in which the worker reads targetDoorState = Closed at its
\* guard makes no GPIO call, no persistence write, schedules no notification
\* and does not write the state record: all it does is pause the timer.
C9_StaleExpiryIsNoop ==
    /\ [](wSaw = Closed => (wpc = "w223" /\ wLog = <<"pause">>))
    /\ [][(wpc = "w226" /\ wpc' \in {"w223", "w228"} /\ state.targetDoorState = Closed) =>
            (wpc' = "w223" /\ UNCHANGED <<state, store, gpio, queue, raisedBy, lastRaise>>)]_vars

C9_Witness == wSaw = Closed /\ wpc = "w223" /\ wLog = <<"pause">> /\ ~halted

\* C10: HAPAccessoryServerRaiseEvent is only ever called in the run-loop
\* context; what the worker announces is raised by the run loop from a
\* queued message, and the ISR raises nothing.
C10_RaiseOnlyOnRunLoop ==
    /\ raisedBy \subseteq {"runloop"}
    /\ lastRaise.ctx \in {"none", "runloop"}

C10_Witness ==
    /\ lastRaise.via = "queue" /\ lastRaise.ctx = "runloop"
    /\ Has(wLog, "schedC") /\ queue = <<>>

\* The notification effects of a log, in order.
NotifyPart(log) == SelectSeq(log, LAMBDA e : e \in Notify)

\* A step of the run loop executing one queued callback.
RunLoopExecutes ==
    /\ Len(pending') < Len(pending)
    /\ lastRaise'.via = "queue"

\* C11: a complete state-changing write raises exactly two events, target
\* then current; a complete auto-revert posts exactly two messages, target
\* then current; and the run loop executes the posted messages one by one in
\* the order posted, each once, with the identifiers that were posted (the
\* queue always holds exactly the posted messages not yet executed, and a
\* queued message can be executed whenever the run loop is free).
C11_TwoNotificationsInOrder ==
    /\ []((hpc = "idle" /\ hLog /= <<>>) => NotifyPart(hLog) = <<"raiseT", "raiseC">>)
    /\ []((wpc = "w223" /\ wSaw = Open) => NotifyPart(wLog) = <<"schedT", "schedC">>)
    /\ [](queue = pending)
    /\ []((queue /= <<>> /\ hpc = "idle" /\ ~halted) =>
             ENABLED AccessoryNotificationRunLoopCallback)
    /\ [][RunLoopExecutes =>
            /\ lastRaise'.ctx = "runloop"
            /\ lastRaise'.msg = Head(pending)
            /\ pending' = Tail(pending)]_vars

C11_Witness ==
    /\ lastRaise = [ctx |-> "runloop", msg |-> Msg("CurrentDoorState"), via |-> "queue"]
    /\ pending = <<>> /\ wpc = "w223" /\ wLog = RevertEffects
    /\ hpc = "idle" /\ NotifyPart(hLog) = <<"raiseT", "raiseC">>

\* The handler is between its first write to the state record and its last
\* side effect; the worker is between its guard and its last side effect.
HandlerInProgress == hpc \in {"h369", "h370", "h371", "h372", "h377", "h378", "h381"}
WorkerInProgress == wpc \in {"w228", "w229", "w230", "w231", "w232", "w233"}

\* C12: the write handler and the worker's auto-revert are never in progress
\* at the same time.
C12_MutualExclusion == ~(HandlerInProgress /\ WorkerInProgress /\ ~halted)

\* C13: the worker enters a state-changing auto-revert only on a wake-up that
\* stems from the expiry of the countdown armed by the most recent
\* state-changing write of Open.
C13_RevertOnlyOnOwnExpiry == (wpc = "w228" /\ ~halted) => fresh.worker

\* A step of the timer interrupt: the alarm fires and is left disabled with
\* the counter still enabled.
IsrStep == timer.alarm_en /\ ~timer'.alarm_en /\ timer'.counter_en

\* C14: the timer interrupt only posts the wake signal to the worker: it
\* leaves the state record, the persisted record and the GPIO level as they
\* are, schedules no notification, raises no event, and moves neither the
\* write handler nor the worker.
C14_IsrOnlyWakes ==
    [][IsrStep =>
          /\ notifyValue' = Min(notifyValue + 1, MaxNotifyValue)
          /\ UNCHANGED <<state, store, gpio, queue, pending, raisedBy, lastRaise,
                         hpc, hLog, wpc, wLog, halted>>]_vars

C14_Witness ==
    /\ timer.counter_en /\ ~timer.alarm_en /\ timer.counter >= timer.alarm_value
    /\ arm = "fired" /\ notifyValue > 0 /\ gpio /\ wpc = "w223"

\* C15: once a write of target t has returned, and the worker has handled no
\* wake-up since that call began, the current-state read returns t and the
\* target-state read returns t.
C15_SetThenRead ==
    (hpc = "idle" /\ writes > 0 /\ ~wDuring /\ ~halted) =>
        /\ HandleGarageDoorOpenerCurrentDoorStateRead = hReq
        /\ HandleGarageDoorOpenerTargetDoorStateRead = hReq

\* The values the closed enumeration allows.
ValidCurrents == {kHAPCharacteristicValue_CurrentDoorState_Open,
                  kHAPCharacteristicValue_CurrentDoorState_Closed}

\* C16: targetDoorState and currentDoorState are always Open or Closed, and
\* so are the fields of every record of the state's size in the store; no
\* transitional value is produced.
C16_ClosedEnumeration ==
    /\ state.targetDoorState \in ValidTargets
    /\ state.currentDoorState \in ValidCurrents
    /\ (store.found /\ store.numBytes = SizeofState) =>
          /\ store.bytes.targetDoorState \in ValidTargets
          /\ store.bytes.currentDoorState \in ValidCurrents

C16_Witness ==
    /\ writes = MaxWrites /\ reverts > 0 /\ hpc = "idle" /\ hReq = Open
    /\ store = SaveAccessoryState(state) /\ state.currentDoorState = Closed

\* The device has just booted: no write request has been handled and the
\* worker has not run.
FreshBoot == writes = 0 /\ wpc = "w220" /\ hpc = "idle"

\* C17: booting with a record of another size does not halt, logs exactly one
\* error and leaves the same state as booting with no record, for which
\* nothing is logged.
C17_MismatchRecovers ==
    /\ (FreshBoot /\ loadResult = "mismatch") =>
          /\ ~halted
          /\ bootErrors = 1
          /\ state = LoadAccessoryState(NotFound)
    /\ (FreshBoot /\ loadResult = "notfound") =>
          /\ ~halted
          /\ bootErrors = 0

C17_Witness ==
    /\ FreshBoot /\ loadResult = "mismatch" /\ store.found
    /\ store.bytes /= state /\ bootErrors = 1

\* A step that boots the device: everything but the store starts afresh.
BootStep ==
    /\ writes' = 0 /\ hpc' = "idle" /\ wpc' = "w220" /\ hLog' = <<>> /\ wLog' = <<>>
    /\ timer' = TimerOff /\ ~gpio' /\ queue' = <<>> /\ store' = store

\* The effects that must not follow a failed persistence write.
AfterPersist == Notify \cup Driver \cup TimerArm

\* C18: an error from the store's Get or Set halts the process at that
\* point: the operation in progress has performed nothing after the failed
\* call (no notification, no GPIO command, no timer call), and from then on
\* nothing changes until the device is restarted.
C18_StoreErrorHalts ==
    /\ [](storeErr => halted)
    /\ []((halted /\ hpc = "h370") => \A i \in 1..Len(hLog) : hLog[i] \notin AfterPersist)
    /\ []((halted /\ wpc = "w230") => \A i \in 1..Len(wLog) : wLog[i] \notin AfterPersist)
    /\ []((halted /\ loadResult = "error") => (writes = 0 /\ wpc = "w220"))
    /\ [][halted =>
            \/ BootStep
            \/ UNCHANGED <<state, store, gpio, timer, notifyValue, queue, raisedBy,
                           lastRaise, hpc, hLog, wpc, wLog>>]_vars

C18_Witness ==
    /\ storeErr /\ halted /\ hpc = "h370" /\ hReq = Open
    /\ state.targetDoorState = Open /\ ~gpio /\ ~timer.counter_en
    /\ store.bytes.targetDoorState = Closed

\* C19: after set_timer(d) the alarm value is d * TIMER_SCALE / 1000 ticks
\* (TIMER_SCALE is a multiple of 1000), so the countdown is never shorter
\* than the d milliseconds asked for.
C19_AlarmIsDuration ==
    timer.alarm_en => timer.alarm_value = timer.duration_ms * (TIMER_SCALE \div 1000)

\* Neither the write handler nor the worker is in the middle of an operation.
Quiescent == hpc = "idle" /\ wpc \in {"w220", "w223"} /\ ~halted

\* C20: whenever neither the write handler nor the worker is in the middle
\* of an operation, the GPIO output is high exactly when targetDoorState is
\* Open.
C20_OutputTracksTarget == Quiescent => (gpio <=> state.targetDoorState = Open)

\* Both the write handler and the worker have finished: at least one write
\* request has been handled and neither is in the middle of an operation.
AtRest == Quiescent /\ writes > 0

\* C21: whatever the interleaving of the write handler with the worker's
\* auto-revert, once both have finished currentDoorState equals
\* targetDoorState, the persisted record equals the record in memory, and
\* the GPIO is not high with targetDoorState = Closed.
C21_ConsistentAtRest ==
    AtRest =>
        /\ state.currentDoorState = state.targetDoorState
        /\ (hLog /= <<>> \/ wLog /= <<>>) => store = SaveAccessoryState(state)
        /\ ~(gpio /\ state.targetDoorState = Closed)

\* The process has halted because SaveAccessoryState failed, inside a write
\* request for Closed or inside the worker's auto-revert.
HaltedInSave ==
    /\ halted /\ loadResult /= "error"
    /\ (hpc = "h370" /\ hReq = Closed) \/ wpc = "w230"

\* C22: whenever the process has halted because a persistence write failed,
\* the GPIO output is low.
C22_HaltLeavesOutputLow == HaltedInSave => ~gpio

====
